---- MODULE Spec2Model ----
(***************************************************************************)
(* Model of the proton-mail-export command line tool (cli/bin/main.cpp):   *)
(* the Ctrl+C handler, the prompt readers, the login orchestrator          *)
(* (performLogin), the backup and restore orchestrators and the entry      *)
(* point's exception handlers.  The Task Runner (task_runner.hpp) is not   *)
(* part of the available sources and is modelled from its specification.   *)
(***************************************************************************)
EXTENDS Integers, Sequences, FiniteSets, TLC

VARIABLES
    win32,              \* build variant: TRUE when compiled with _WIN32
    cli,                \* the keys given by a non-empty flag, by a non-empty environment
                        \* variable, and by a flag with an empty value
    gShouldQuit,        \* main.cpp:52
    gConnectionActive,  \* main.cpp:53
    lastCallback,       \* history: the last network callback the session invoked
    stdinState,         \* "open", "eof" (input ended), "closed" (fclose by the handler)
    hpc,                \* position of each Ctrl+C handler invocation
    pc,                 \* position of the main thread
    reader,             \* the prompt reader the main thread is in (readText, readSecret, ...)
    readResult,         \* value returned by the last prompt reader
    task,               \* the task in flight (kind, worker state, outcome, cancel calls, progress)
    cancelled,          \* Task Runner local: cancel() already called
    taskResult,         \* what the last Task Runner invocation returned or raised
    loginState,         \* main.cpp:381
    numLoginAttempts,   \* main.cpp:384
    username,           \* main.cpp:402
    password,           \* main.cpp:407
    loginUsername,      \* main.cpp:386
    loginPassword,      \* main.cpp:387
    lastLogin,          \* history: the credentials of the last login() of the LoggedOut step
    replayed,           \* history: the credentials passed by the replay in flight
    outPathCameFromArg, \* main.cpp:515 / main.cpp:583
    promptEntry,        \* main.cpp:292
    backupPath,         \* main.cpp:290 / main.cpp:582
    space,              \* expected disk usage and available space
    chosen,             \* history: where the directory came from and the value given
    ran,                \* history: runTaskWithProgress was called for the operation
    statsRead,          \* history: printRestoreStats was called
    exitCode,           \* process exit code, -1 while running
    diag,               \* last diagnostic written to stdout / stderr
    stepAttempts,       \* history: number of login steps attempted
    visited,            \* history: login states visited
    lastStep,           \* history: the last completed login step
    failStreak,         \* history: login steps failed in a row
    cancelRaised        \* history: where a CancelledException was raised

vars == <<win32, cli, gShouldQuit, gConnectionActive, lastCallback, stdinState, hpc, pc, reader,
          readResult, task, cancelled, taskResult, loginState, numLoginAttempts,
          username, password, loginUsername, loginPassword, lastLogin, replayed,
          outPathCameFromArg, promptEntry, backupPath, space, chosen, ran, statsRead,
          exitCode, diag,
          stepAttempts, visited, lastStep, failStreak, cancelRaised>>

(***************************************************************************)
(* Bounds of the model.                                                    *)
(***************************************************************************)
MaxSignals == 1
MaxDeliveries == 2
MaxSteps == 4
MaxProgress == 1
MaxBytes == 1

(***************************************************************************)
(* Program constants.                                                      *)
(***************************************************************************)
kNumInputRetries == 3
kMaxNumLoginAttempts == 3
EXIT_SUCCESS == 0
EXIT_FAILURE == 1

LoginStates == {"LoggedOut", "AwaitingTOTP", "AwaitingHV", "AwaitingMailboxPassword", "LoggedIn"}

CliKeys == {"user", "password", "totp", "mbox-password", "operation", "dir"}

\* the command lines / environments explored
CliConfigs ==
    { [flag |-> {}, env |-> {}, blank |-> {}],
      [flag |-> {"user"}, env |-> {"user"}, blank |-> {"password"}],
      [flag |-> {}, env |-> {"password", "totp"}, blank |-> {}],
      [flag |-> {"user", "password", "mbox-password", "operation"}, env |-> {"dir"},
       blank |-> {}],
      [flag |-> {"operation", "dir"}, env |-> {}, blank |-> {}],
      [flag |-> {}, env |-> {"operation"}, blank |-> {"dir"}],
      [flag |-> CliKeys, env |-> CliKeys, blank |-> {}] }

NoReader == [kind |-> "none", label |-> "", i |-> 0, phase |-> "none", ret |-> "", try |-> "main"]
NoTask == [kind |-> "none", worker |-> "none", outcome |-> "none", cancelCalls |-> 0,
           progress |-> 0, ret |-> ""]
NoStep == [state |-> "none", err |-> FALSE, attempts |-> 0]

Alive == exitCode = -1

cfgVars == <<win32, cli>>
sigVars == <<gShouldQuit, stdinState, hpc>>
netVars == <<gConnectionActive, lastCallback>>
rdrVars == <<reader, readResult>>
runVars == <<task, cancelled, taskResult>>
localCreds == <<username, password, replayed>>
savedCreds == <<loginUsername, loginPassword, lastLogin>>
loginVars == <<loginState, numLoginAttempts, localCreds, savedCreds>>
opVars == <<outPathCameFromArg, promptEntry, backupPath, space, chosen, ran, statsRead>>
outVars == <<exitCode, diag>>
histVars == <<stepAttempts, visited, lastStep, failStreak>>

(***************************************************************************)
(* Exceptions.  Every exception class of the program derives from          *)
(* etcpp::Exception, which derives from std::exception.                    *)
(***************************************************************************)
Exceptions == {"CancelledException", "ReadInputException", "SessionException",
               "KillSwitchException", "BackupException", "RestoreException", "Exception"}

IsStdException(e) == e \in Exceptions

\* faulty variant: the kill switch handler returns EXIT_SUCCESS
MainCatch_KillSwitchSuccess(e) ==
    IF e = "CancelledException" THEN [code |-> EXIT_SUCCESS, diag |-> "cancelled"]
    ELSE IF e = "ReadInputException" THEN [code |-> EXIT_FAILURE, diag |-> "read-input"]
    ELSE IF e = "KillSwitchException" THEN [code |-> EXIT_SUCCESS, diag |-> "kill-switch"]
    ELSE [code |-> EXIT_FAILURE, diag |-> "unexpected-error"]

\* The catch clauses of main(): the exit code and the diagnostic of an
\* exception that reaches the entry point.
MainCatch(e) ==
    IF e = "CancelledException" THEN [code |-> EXIT_SUCCESS, diag |-> "cancelled"]
    ELSE IF e = "ReadInputException" THEN [code |-> EXIT_FAILURE, diag |-> "read-input"]
    ELSE IF e = "KillSwitchException" THEN [code |-> EXIT_FAILURE, diag |-> "kill-switch"]
    ELSE [code |-> EXIT_FAILURE, diag |-> "unexpected-error"]

\* return from main with the given code
Exit(code, d) ==
    /\ exitCode' = code
    /\ diag' = d
    /\ pc' = "done"

\* an exception leaves the orchestrators and reaches the handlers of main()
Throw(e) ==
    /\ Exit(MainCatch(e).code, MainCatch(e).diag)
    /\ cancelRaised' = IF e = "CancelledException" THEN pc ELSE cancelRaised

(***************************************************************************)
(* The Ctrl+C handler registered by main(), run once per delivery.         *)
(***************************************************************************)
HandlerCheck(h) ==
    /\ Alive
    /\ hpc[h] = "idle"
    /\ hpc' = [hpc EXCEPT ![h] = IF ~gShouldQuit THEN "store" ELSE "end"]
    /\ UNCHANGED <<cfgVars, gShouldQuit, stdinState, netVars, pc, rdrVars, runVars,
                   loginVars, opVars, outVars, histVars, cancelRaised>>

HandlerStore(h) ==
    /\ Alive
    /\ hpc[h] = "store"
    /\ gShouldQuit' = TRUE
    /\ hpc' = [hpc EXCEPT ![h] = "close"]
    /\ UNCHANGED <<cfgVars, stdinState, netVars, pc, rdrVars, runVars,
                   loginVars, opVars, outVars, histVars, cancelRaised>>

\* faulty variant: the handler clears the signal once stdin is closed
HandlerClose_ClearsSignal(h) ==
    /\ Alive
    /\ hpc[h] = "close"
    /\ stdinState' = "closed"
    /\ gShouldQuit' = FALSE
    /\ hpc' = [hpc EXCEPT ![h] = "end"]
    /\ UNCHANGED <<cfgVars, netVars, pc, rdrVars, runVars,
                   loginVars, opVars, outVars, histVars, cancelRaised>>

\* fclose(stdin): the stream is closed; on a stream that is already closed the
\* behaviour is undefined: the call has no further effect or the process is
\* terminated
FcloseOutcomes(state) == IF state = "closed" THEN {"closed", "crashed"} ELSE {"closed"}

HandlerClose(h) ==
    /\ Alive
    /\ hpc[h] = "close"
    /\ hpc' = [hpc EXCEPT ![h] = "end"]
    /\ \E out \in FcloseOutcomes(stdinState) :
        IF out = "crashed"
        THEN exitCode' = EXIT_FAILURE /\ diag' = out /\ UNCHANGED stdinState
        ELSE stdinState' = out /\ UNCHANGED outVars
    /\ UNCHANGED <<cfgVars, gShouldQuit, netVars, pc, rdrVars, runVars,
                   loginVars, opVars, histVars, cancelRaised>>

(***************************************************************************)
(* The network callbacks, invoked by the session on its own thread.        *)
(***************************************************************************)
SessionExists == pc \notin {"versionCheck", "versionCheck_ret", "done"}

\* a callback that treats the loss of the network as a request to quit
onNetworkLost_Quits ==
    /\ Alive /\ SessionExists
    /\ gConnectionActive' = FALSE
    /\ lastCallback' = "lost"
    /\ gShouldQuit' = TRUE
    /\ UNCHANGED <<cfgVars, stdinState, hpc, pc, rdrVars, runVars,
                   loginVars, opVars, outVars, histVars, cancelRaised>>

onNetworkLost ==
    /\ Alive /\ SessionExists
    /\ gConnectionActive' = FALSE
    /\ lastCallback' = "lost"
    /\ UNCHANGED <<cfgVars, sigVars, pc, rdrVars, runVars,
                   loginVars, opVars, outVars, histVars, cancelRaised>>

onNetworkRestored ==
    /\ Alive /\ SessionExists
    /\ gConnectionActive' = TRUE
    /\ lastCallback' = "restored"
    /\ UNCHANGED <<cfgVars, sigVars, pc, rdrVars, runVars,
                   loginVars, opVars, outVars, histVars, cancelRaised>>

shouldQuit == gShouldQuit
networkLost == ~gConnectionActive

(***************************************************************************)
(* Paths.  A path is one of a few tokens: "dir" an existing directory,     *)
(* "missing" a path that does not exist, "file" an existing file, "rel" a  *)
(* relative path, "outputPath" the directory returned by getOutputPath.    *)
(***************************************************************************)
\* the values the dir flag or ET_DIR can carry
ArgPaths == {"dir", "missing", "file", "rel"}

NoChoice == [source |-> "none", value |-> ""]

\* if (backupPath.is_relative()) backupPath = outputPath / backupPath
Resolve(p) == IF p = "rel" THEN "outputPath/rel" ELSE p

PathExists(p) == p \in {"dir", "file", "outputPath", "outputPath/rel"}
IsDirectory(p) == p \in {"dir", "outputPath", "outputPath/rel"}

(***************************************************************************)
(* The prompt readers: readLine and the loops around it.                   *)
(***************************************************************************)
\* the lines a user can type at a prompt of the given kind
Lines(kind) ==
    IF kind = "text" THEN {"", "v", "w"}
    ELSE IF kind = "secret" THEN {"", "v"}
    ELSE IF kind = "yesno" THEN {"", "yes", "no", "bad"}
    ELSE IF kind = "operation" THEN {"", "backup", "restore", "bad"}
    ELSE IF kind = "path" THEN {"", "dir", "missing", "file", "rel"}
    ELSE {""}

\* what the loop of readText / readSecret / readYesNo / readOperation / readPath
\* does with a line: "retry" or the value it returns
Accept(kind, line) ==
    IF kind = "enter" THEN line
    ELSE IF line = "" THEN "retry"
    ELSE IF kind \in {"yesno", "operation"} /\ line = "bad" THEN "retry"
    ELSE IF kind = "path" /\ PathExists(line) /\ ~IsDirectory(line) THEN "retry"
    ELSE line

\* the exception readLine raises when the stream is at end of file
ReadLineEof ==
    IF win32 THEN "CancelledException"
    ELSE IF gShouldQuit THEN "CancelledException"
    ELSE "ReadInputException"

\* the main thread enters a reader; control returns at ret
Prompt(kind, label, ret, try) ==
    /\ reader' = [kind |-> kind, label |-> label, i |-> 0, phase |-> "print", ret |-> ret,
                  try |-> try]
    /\ pc' = "reading"

\* readLine / waitForEnter: the label is written to stdout
ReadLinePrint ==
    /\ Alive /\ pc = "reading" /\ reader.phase = "print"
    /\ reader' = [reader EXCEPT !.phase = "getline"]
    /\ UNCHANGED <<cfgVars, sigVars, netVars, pc, readResult, runVars,
                   loginVars, opVars, outVars, histVars, cancelRaised>>

PromptIssued == pc = "reading" /\ reader.phase = "print" /\ reader'.phase = "getline"

\* an exception raised by a reader: caught by the try block of performRestore
\* around getRestorePath, or by main()
ReaderThrow(e) ==
    IF reader.try = "restore" /\ IsStdException(e)
    THEN /\ pc' = "rs_create"
         /\ cancelRaised' = IF e = "CancelledException" THEN "reading" ELSE cancelRaised
         /\ UNCHANGED outVars
    ELSE Throw(e)

\* std::getline returns, and the loop around readLine handles the line
ReadLineGet ==
    /\ Alive /\ pc = "reading" /\ reader.phase = "getline"
    /\ \E in \in (IF stdinState = "open" THEN Lines(reader.kind) \cup {"eof"} ELSE {"eof"}) :
        /\ stdinState' = IF in = "eof" /\ stdinState = "open" THEN "eof" ELSE stdinState
        /\ IF in = "eof" /\ reader.kind # "enter"
           THEN /\ ReaderThrow(ReadLineEof)
                /\ reader' = NoReader
                /\ UNCHANGED readResult
           ELSE LET r == Accept(reader.kind, IF in = "eof" THEN "" ELSE in) IN
                IF r # "retry"
                THEN /\ readResult' = r
                     /\ reader' = NoReader
                     /\ pc' = reader.ret
                     /\ UNCHANGED <<outVars, cancelRaised>>
                ELSE IF reader.i + 1 < kNumInputRetries
                THEN /\ reader' = [reader EXCEPT !.i = reader.i + 1, !.phase = "print"]
                     /\ UNCHANGED <<pc, readResult, outVars, cancelRaised>>
                ELSE /\ ReaderThrow("ReadInputException")
                     /\ reader' = NoReader
                     /\ UNCHANGED readResult
    /\ UNCHANGED <<cfgVars, gShouldQuit, hpc, netVars, runVars,
                   loginVars, opVars, histVars>>

\* faulty variant: the environment variable is looked at before the flag
CLISource_EnvFirst(key) ==
    IF key \in cli.env THEN "env" ELSE IF key \in cli.flag THEN "flag" ELSE "fallback"

\* where getCLIValue takes its result from: a flag with an empty value counts
\* as no flag
CLISource(key) ==
    IF key \in cli.flag THEN "flag" ELSE IF key \in cli.env THEN "env" ELSE "fallback"

\* getCLIValue: the flag, else the environment variable, else the fallback reader
getCLIValue(key, kind, label, ret) ==
    IF CLISource(key) # "fallback"
    THEN /\ readResult' = CLISource(key)
         /\ pc' = ret
         /\ UNCHANGED reader
    ELSE Prompt(kind, label, ret, "main") /\ UNCHANGED readResult

(***************************************************************************)
(* Tasks and the Task Runner (runTask / runTaskWithProgress).              *)
(***************************************************************************)
LoginOutcomes == LoginStates \cup {"SessionException", "KillSwitchException"}

\* how run() of a task can end; a cancelled outcome needs a cancel() call
TaskOutcomes(kind, cancelRequested) ==
    (IF kind = "versionCheck" THEN {"true", "false", "Exception"}
     ELSE IF kind \in {"login", "loginTOTP", "loginRetry"} THEN LoginOutcomes
     ELSE IF kind = "backup" THEN {"ok", "BackupException"}
     ELSE {"ok", "RestoreException"})
    \cup (IF cancelRequested THEN {"Cancelled"} ELSE {})

HasProgress(kind) == kind \in {"backup", "restore"}

\* the runner starts run() on a worker thread
runTask(kind, ret) ==
    /\ task' = [kind |-> kind, worker |-> "running", outcome |-> "none", cancelCalls |-> 0,
                progress |-> 0, ret |-> ret]
    /\ cancelled' = FALSE
    /\ taskResult' = "none"
    /\ pc' = "runTask"

\* faulty variant: the cancel() of the operation is invoked twice
TaskCancel_Twice(t) == [t EXCEPT !.cancelCalls = t.cancelCalls + 2]

\* BackupTask::cancel and its siblings: forwards to the cancel() of the operation
TaskCancel(t) == [t EXCEPT !.cancelCalls = t.cancelCalls + 1]

\* a poll of the runner that sees the cancellation signal
RunnerCancel ==
    /\ Alive /\ pc = "runTask"
    /\ task.worker \in {"running", "finished"}
    /\ shouldQuit /\ ~cancelled
    /\ task' = TaskCancel(task)
    /\ cancelled' = TRUE
    /\ UNCHANGED <<cfgVars, sigVars, netVars, pc, rdrVars, taskResult,
                   loginVars, opVars, outVars, histVars, cancelRaised>>

\* BackupTask::onProgress, called on the worker thread from within run()
WorkerProgress ==
    /\ Alive /\ task.worker = "running" /\ HasProgress(task.kind)
    /\ \E p \in 0..MaxProgress :
        /\ p # task.progress
        /\ task' = [task EXCEPT !.progress = p]
    /\ UNCHANGED <<cfgVars, sigVars, netVars, pc, rdrVars, cancelled, taskResult,
                   loginVars, opVars, outVars, histVars, cancelRaised>>

\* run() returns or raises on the worker thread
WorkerFinish ==
    /\ Alive /\ task.worker = "running"
    /\ \E o \in TaskOutcomes(task.kind, task.cancelCalls > 0) :
        task' = [task EXCEPT !.worker = "finished", !.outcome = o]
    /\ UNCHANGED <<cfgVars, sigVars, netVars, pc, rdrVars, cancelled, taskResult,
                   loginVars, opVars, outVars, histVars, cancelRaised>>

\* faulty variant: an error raised by run() is turned into a cancellation
RunnerResult_Swallow(outcome) ==
    IF outcome \in Exceptions \cup {"Cancelled"} THEN "CancelledException" ELSE outcome

\* what the runner hands to its caller for an outcome of run()
RunnerResult(outcome) == IF outcome = "Cancelled" THEN "CancelledException" ELSE outcome

\* faulty variant: once cancel() was called the runner returns without
\* waiting for the worker
RunnerReturn_NoWait ==
    /\ Alive /\ pc = "runTask"
    /\ task.worker = "finished" \/ (task.worker = "running" /\ cancelled)
    /\ taskResult' = IF task.worker = "finished" THEN task.outcome ELSE "CancelledException"
    /\ task' = IF task.worker = "finished" THEN NoTask ELSE task
    /\ cancelled' = FALSE
    /\ pc' = task.ret
    /\ UNCHANGED <<cfgVars, sigVars, netVars, rdrVars,
                   loginVars, opVars, outVars, histVars, cancelRaised>>

\* the runner sees the worker finished, joins it and returns or raises
RunnerReturn ==
    /\ Alive /\ pc = "runTask"
    /\ task.worker = "finished"
    /\ taskResult' = RunnerResult(task.outcome)
    /\ task' = NoTask
    /\ cancelled' = FALSE
    /\ pc' = task.ret
    /\ UNCHANGED <<cfgVars, sigVars, netVars, rdrVars,
                   loginVars, opVars, outVars, histVars, cancelRaised>>

(***************************************************************************)
(* main(): the version check that precedes the login.                      *)
(***************************************************************************)
VersionCheck ==
    /\ Alive /\ pc = "versionCheck"
    /\ runTask("versionCheck", "versionCheck_ret")
    /\ UNCHANGED <<cfgVars, sigVars, netVars, rdrVars,
                   loginVars, opVars, outVars, histVars, cancelRaised>>

\* catch (const std::exception&) {} around the version check
VersionCheckRet ==
    /\ Alive /\ pc = "versionCheck_ret"
    /\ taskResult' = "none"
    /\ IF taskResult \in Exceptions /\ ~IsStdException(taskResult)
       THEN Throw(taskResult)
       ELSE /\ pc' = "login_loop"
            /\ cancelRaised' = IF taskResult = "CancelledException" THEN pc ELSE cancelRaised
            /\ UNCHANGED outVars
    /\ UNCHANGED <<cfgVars, sigVars, netVars, rdrVars, task, cancelled,
                   loginVars, opVars, histVars>>

(***************************************************************************)
(* performLogin.                                                           *)
(***************************************************************************)
\* the switch on loginState
LoginDispatch(s) ==
    IF s = "LoggedOut" THEN "LoggedOut_user"
    ELSE IF s = "AwaitingTOTP" THEN "TOTP_get"
    ELSE IF s = "AwaitingHV" THEN "HV_url"
    ELSE IF s = "AwaitingMailboxPassword" THEN "MBOX_get"
    ELSE "unexpected"

\* faulty variant: a failed step is not counted
AttemptsOnFailure_NoIncrement(n) == n

\* the value of numLoginAttempts after a step that raised a SessionException
AttemptsOnFailure(n) == n + 1

\* faulty variant: a successful step leaves the counter as it is
AttemptsOnSuccess_NoReset(n) == n

\* the value of numLoginAttempts after a step that returned a login state
AttemptsOnSuccess(n) == 0

\* faulty variant: a round that raised no error resets the counter
AttemptsAfterHV_Reset(n, s) == 0

\* the value of numLoginAttempts after the human verification round ended in state s
AttemptsAfterHV(n, s) == IF s = "AwaitingHV" THEN n + 1 ELSE 0

\* faulty variant: the bound is compared with > instead of >=
MaxAttemptsReached_OffByOne(n) == n > kMaxNumLoginAttempts

\* the retry bound checked at the top of the loop
MaxAttemptsReached(n) == n >= kMaxNumLoginAttempts

\* a login step ended: the login state and the retry counter it leaves behind
StepDone(from, newState, attempts, failed) ==
    /\ loginState' = newState
    /\ numLoginAttempts' = attempts
    /\ visited' = visited \cup {newState}
    /\ lastStep' = [state |-> from, err |-> failed, attempts |-> numLoginAttempts]
    /\ failStreak' = IF failed \/ (from = "AwaitingHV" /\ newState = "AwaitingHV")
                     THEN failStreak + 1 ELSE 0
    /\ username' = ""
    /\ password' = ""
    /\ replayed' = <<>>
    /\ readResult' = "none"
    /\ pc' = "login_loop"

\* faulty variant: main ignores the value performLogin returned and goes on
LoginReturn_Ignored(code, d) ==
    /\ pc' = "operation"
    /\ UNCHANGED outVars

\* performLogin returns an exit code and main returns it
LoginReturn(code, d) == Exit(code, d)

\* the head of the while loop and the switch
LoginLoop ==
    /\ Alive /\ pc = "login_loop"
    /\ lastStep' = NoStep
    /\ IF loginState = "LoggedIn"
       THEN \* performLogin returns std::nullopt, its locals go out of scope
            /\ pc' = "operation"
            /\ numLoginAttempts' = 0
            /\ stepAttempts' = 0
            /\ visited' = {}
            /\ failStreak' = 0
            /\ loginUsername' = ""
            /\ loginPassword' = ""
            /\ lastLogin' = <<>>
            /\ UNCHANGED outVars
       ELSE /\ UNCHANGED <<numLoginAttempts, stepAttempts, visited, failStreak, savedCreds>>
            /\ IF gShouldQuit
               THEN LoginReturn(EXIT_SUCCESS, "quit")
               ELSE IF MaxAttemptsReached(numLoginAttempts)
               THEN LoginReturn(EXIT_FAILURE, "Max attempts reached")
               ELSE IF LoginDispatch(loginState) = "unexpected"
               THEN LoginReturn(EXIT_FAILURE, "unexpected login state")
               ELSE /\ stepAttempts < MaxSteps
                    /\ pc' = LoginDispatch(loginState)
                    /\ UNCHANGED outVars
    /\ UNCHANGED <<cfgVars, sigVars, netVars, rdrVars, runVars,
                   loginState, localCreds, opVars, cancelRaised>>

\* a check of gShouldQuit after a prompt: return EXIT_SUCCESS or go on
QuitCheck(next) ==
    IF gShouldQuit
    THEN LoginReturn(EXIT_SUCCESS, "quit")
    ELSE pc' = next /\ UNCHANGED outVars

LoggedOutUser ==
    /\ Alive /\ pc = "LoggedOut_user"
    /\ getCLIValue("user", "text", "Username", "LoggedOut_chk")
    /\ UNCHANGED <<cfgVars, sigVars, netVars, runVars,
                   loginVars, opVars, outVars, histVars, cancelRaised>>

LoggedOutCheck ==
    /\ Alive /\ pc = "LoggedOut_chk"
    /\ username' = readResult
    /\ QuitCheck("LoggedOut_pass")
    /\ UNCHANGED <<cfgVars, sigVars, netVars, rdrVars, runVars,
                   loginState, numLoginAttempts, password, replayed, savedCreds,
                   opVars, histVars, cancelRaised>>

LoggedOutPassword ==
    /\ Alive /\ pc = "LoggedOut_pass"
    /\ getCLIValue("password", "secret", "Password", "LoggedOut_login")
    /\ UNCHANGED <<cfgVars, sigVars, netVars, runVars,
                   loginVars, opVars, outVars, histVars, cancelRaised>>

LoggedOutLogin ==
    /\ Alive /\ pc = "LoggedOut_login"
    /\ password' = readResult
    /\ runTask("login", "LoggedOut_ret")
    /\ lastLogin' = <<username, readResult>>
    /\ readResult' = "none"
    /\ stepAttempts' = stepAttempts + 1
    /\ UNCHANGED <<cfgVars, sigVars, netVars, reader,
                   loginState, numLoginAttempts, username, replayed, loginUsername,
                   loginPassword, opVars, outVars, visited, lastStep, failStreak,
                   cancelRaised>>

\* the try / catch around a step run by the Task Runner (login, loginTOTP)
StepRet(from) ==
    /\ taskResult' = "none"
    /\ IF taskResult \in LoginStates
       THEN /\ StepDone(from, taskResult, AttemptsOnSuccess(numLoginAttempts), FALSE)
            /\ UNCHANGED <<outVars, cancelRaised>>
       ELSE IF taskResult = "SessionException"
       THEN /\ StepDone(from, loginState, AttemptsOnFailure(numLoginAttempts), TRUE)
            /\ UNCHANGED <<outVars, cancelRaised>>
       ELSE /\ Throw(taskResult)
            /\ UNCHANGED <<loginState, numLoginAttempts, localCreds, readResult, visited,
                           lastStep, failStreak>>
    /\ UNCHANGED <<cfgVars, sigVars, netVars, reader, task, cancelled,
                   lastLogin, opVars, stepAttempts>>

\* faulty variant: the credentials are never kept
SavedCredential_Never(old, new, returned) == old

\* loginUsername = std::move(username), reached when runTask returned a state
SavedCredential(old, new, returned) == IF returned THEN new ELSE old

LoggedOutRet ==
    /\ Alive /\ pc = "LoggedOut_ret"
    /\ StepRet("LoggedOut")
    /\ loginUsername' = SavedCredential(loginUsername, username, taskResult \in LoginStates)
    /\ loginPassword' = SavedCredential(loginPassword, password, taskResult \in LoginStates)

TOTPGet ==
    /\ Alive /\ pc = "TOTP_get"
    /\ getCLIValue("totp", "secret", "Enter the code from your authenticator app", "TOTP_chk")
    /\ UNCHANGED <<cfgVars, sigVars, netVars, runVars,
                   loginVars, opVars, outVars, histVars, cancelRaised>>

TOTPCheck ==
    /\ Alive /\ pc = "TOTP_chk"
    /\ QuitCheck("TOTP_login")
    /\ UNCHANGED <<cfgVars, sigVars, netVars, rdrVars, runVars,
                   loginVars, opVars, histVars, cancelRaised>>

TOTPLogin ==
    /\ Alive /\ pc = "TOTP_login"
    /\ runTask("loginTOTP", "TOTP_ret")
    /\ readResult' = "none"
    /\ stepAttempts' = stepAttempts + 1
    /\ UNCHANGED <<cfgVars, sigVars, netVars, reader,
                   loginVars, opVars, outVars, visited, lastStep, failStreak, cancelRaised>>

TOTPRet ==
    /\ Alive /\ pc = "TOTP_ret"
    /\ StepRet("AwaitingTOTP")
    /\ UNCHANGED <<loginUsername, loginPassword>>

\* session.getHVSolveURL(), called outside the try block, then the notice
\* and waitForEnter
HVUrl ==
    /\ Alive /\ pc = "HV_url"
    /\ \E o \in {"ok", "SessionException"} :
        IF o = "ok"
        THEN /\ Prompt("enter", "Press ENTER to continue", "HV_chk", "main")
             /\ UNCHANGED <<outVars, cancelRaised>>
        ELSE /\ Throw(o)
             /\ UNCHANGED reader
    /\ UNCHANGED <<cfgVars, sigVars, netVars, readResult, runVars,
                   loginVars, opVars, histVars>>

HVCheck ==
    /\ Alive /\ pc = "HV_chk"
    /\ QuitCheck("HV_mark")
    /\ UNCHANGED <<cfgVars, sigVars, netVars, rdrVars, runVars,
                   loginVars, opVars, histVars, cancelRaised>>

\* session.markHVSolved(), called on the main thread; when it reports
\* LoggedOut the login is replayed through the Task Runner
HVMark ==
    /\ Alive /\ pc = "HV_mark"
    /\ stepAttempts' = stepAttempts + 1
    /\ \E o \in LoginOutcomes :
        IF o = "LoggedOut"
        THEN /\ loginState' = o
             /\ visited' = visited \cup {o}
             /\ runTask("loginRetry", "HV_ret")
             /\ replayed' = <<loginUsername, loginPassword>>
             /\ UNCHANGED <<numLoginAttempts, username, password, readResult, lastStep,
                            failStreak, outVars, cancelRaised>>
        ELSE IF o \in LoginStates
        THEN /\ StepDone("AwaitingHV", o, AttemptsAfterHV(numLoginAttempts, o), FALSE)
             /\ UNCHANGED <<runVars, outVars, cancelRaised>>
        ELSE IF o = "SessionException"
        THEN /\ StepDone("AwaitingHV", loginState, AttemptsOnFailure(numLoginAttempts), TRUE)
             /\ UNCHANGED <<runVars, outVars, cancelRaised>>
        ELSE /\ Throw(o)
             /\ UNCHANGED <<runVars, loginState, numLoginAttempts, localCreds, readResult,
                            visited, lastStep, failStreak>>
    /\ UNCHANGED <<cfgVars, sigVars, netVars, reader, savedCreds, opVars>>

\* the replayed login returned or raised
HVRet ==
    /\ Alive /\ pc = "HV_ret"
    /\ taskResult' = "none"
    /\ IF taskResult \in LoginStates
       THEN /\ StepDone("AwaitingHV", taskResult, AttemptsAfterHV(numLoginAttempts, taskResult), FALSE)
            /\ UNCHANGED <<outVars, cancelRaised>>
       ELSE IF taskResult = "SessionException"
       THEN /\ StepDone("AwaitingHV", loginState, AttemptsOnFailure(numLoginAttempts), TRUE)
            /\ UNCHANGED <<outVars, cancelRaised>>
       ELSE /\ Throw(taskResult)
            /\ UNCHANGED <<loginState, numLoginAttempts, localCreds, readResult, visited,
                           lastStep, failStreak>>
    /\ UNCHANGED <<cfgVars, sigVars, netVars, reader, task, cancelled,
                   savedCreds, opVars, stepAttempts>>

MBOXGet ==
    /\ Alive /\ pc = "MBOX_get"
    /\ getCLIValue("mbox-password", "secret", "Mailbox Password", "MBOX_chk")
    /\ UNCHANGED <<cfgVars, sigVars, netVars, runVars,
                   loginVars, opVars, outVars, histVars, cancelRaised>>

MBOXCheck ==
    /\ Alive /\ pc = "MBOX_chk"
    /\ QuitCheck("MBOX_login")
    /\ UNCHANGED <<cfgVars, sigVars, netVars, rdrVars, runVars,
                   loginVars, opVars, histVars, cancelRaised>>

\* session.loginMailboxPassword(), called on the main thread
MBOXLogin ==
    /\ Alive /\ pc = "MBOX_login"
    /\ stepAttempts' = stepAttempts + 1
    /\ \E o \in LoginOutcomes :
        IF o \in LoginStates
        THEN /\ StepDone("AwaitingMailboxPassword", o, AttemptsOnSuccess(numLoginAttempts), FALSE)
             /\ UNCHANGED <<outVars, cancelRaised>>
        ELSE IF o = "SessionException"
        THEN /\ StepDone("AwaitingMailboxPassword", loginState,
                         AttemptsOnFailure(numLoginAttempts), TRUE)
             /\ UNCHANGED <<outVars, cancelRaised>>
        ELSE /\ Throw(o)
             /\ UNCHANGED <<loginState, numLoginAttempts, localCreds, readResult, visited,
                            lastStep, failStreak>>
    /\ UNCHANGED <<cfgVars, sigVars, netVars, reader, runVars, savedCreds, opVars>>

(***************************************************************************)
(* main(): the choice of the operation.                                    *)
(***************************************************************************)
Operation ==
    /\ Alive /\ pc = "operation"
    /\ IF CLISource("operation") # "fallback"
       THEN /\ \E v \in {"backup", "restore", "unknown"} : readResult' = v
            /\ pc' = "operation_chk"
            /\ UNCHANGED reader
       ELSE Prompt("operation", "Operation ((B)ackup/(R)estore))", "operation_chk", "main")
            /\ UNCHANGED readResult
    /\ UNCHANGED <<cfgVars, sigVars, netVars, runVars,
                   loginVars, opVars, outVars, histVars, cancelRaised>>

\* stringToOperation
stringToOperation(str) ==
    IF str = "backup" THEN "Backup" ELSE IF str = "restore" THEN "Restore" ELSE "Unknown"

OperationCheck ==
    /\ Alive /\ pc = "operation_chk"
    /\ IF gShouldQuit
       THEN Exit(EXIT_SUCCESS, "quit")
       ELSE IF stringToOperation(readResult) = "Unknown"
       THEN Exit(EXIT_FAILURE, "Could not determine operation to perform")
       ELSE /\ pc' = IF stringToOperation(readResult) = "Backup" THEN "bk_path" ELSE "rs_path"
            /\ UNCHANGED outVars
    /\ UNCHANGED <<cfgVars, sigVars, netVars, rdrVars, runVars,
                   loginVars, opVars, histVars, cancelRaised>>

(***************************************************************************)
(* performBackup and getBackupPath.                                        *)
(***************************************************************************)
BkPath ==
    /\ Alive /\ pc = "bk_path"
    /\ promptEntry' = FALSE
    /\ outPathCameFromArg' = ("dir" \in cli.flag \cup cli.blank)
    /\ \E argPath \in (IF "dir" \in cli.flag THEN ArgPaths ELSE {""}) :
        /\ backupPath' = argPath
        /\ chosen' = IF argPath # "" THEN [source |-> "flag", value |-> argPath] ELSE NoChoice
        /\ IF argPath = ""
           THEN Prompt("yesno", "Do you wish to proceed?", "bk_yesno", "main")
           ELSE pc' = "bk_loop" /\ UNCHANGED reader
    /\ UNCHANGED <<cfgVars, sigVars, netVars, readResult, runVars,
                   loginVars, space, ran, statsRead, outVars, histVars, cancelRaised>>

BkYesNo ==
    /\ Alive /\ pc = "bk_yesno"
    /\ promptEntry' = (readResult # "yes")
    /\ chosen' = IF readResult = "yes" THEN [source |-> "default", value |-> ""] ELSE chosen
    /\ pc' = "bk_loop"
    /\ UNCHANGED <<cfgVars, sigVars, netVars, rdrVars, runVars, loginVars,
                   outPathCameFromArg, backupPath, space, ran, statsRead, outVars, histVars,
                   cancelRaised>>

\* the head of the while (true) loop of getBackupPath
BkLoop ==
    /\ Alive /\ pc = "bk_loop"
    /\ IF promptEntry
       THEN /\ Prompt("path", "Export Path", "bk_entered", "main")
            /\ UNCHANGED backupPath
       ELSE /\ backupPath' = Resolve(IF backupPath = "" THEN "outputPath" ELSE backupPath)
            /\ pc' = "bk_create"
            /\ UNCHANGED reader
    /\ UNCHANGED <<cfgVars, sigVars, netVars, readResult, runVars, loginVars,
                   outPathCameFromArg, promptEntry, space, chosen, ran, statsRead, outVars,
                   histVars, cancelRaised>>

BkEntered ==
    /\ Alive /\ pc = "bk_entered"
    /\ backupPath' = Resolve(readResult)
    /\ chosen' = [source |-> "entered", value |-> readResult]
    /\ pc' = "bk_create"
    /\ UNCHANGED <<cfgVars, sigVars, netVars, rdrVars, runVars, loginVars,
                   outPathCameFromArg, promptEntry, space, ran, statsRead, outVars, histVars,
                   cancelRaised>>

\* std::filesystem::create_directories and its catch block
BkCreate ==
    /\ Alive /\ pc = "bk_create"
    /\ \E created \in BOOLEAN :
        IF created
        THEN pc' = "bk_space" /\ UNCHANGED outVars
        ELSE IF outPathCameFromArg
        THEN Exit(EXIT_FAILURE, "Failed to create export directory")
        ELSE pc' = "bk_loop" /\ UNCHANGED outVars
    /\ UNCHANGED <<cfgVars, sigVars, netVars, rdrVars, runVars, loginVars,
                   opVars, histVars, cancelRaised>>

\* faulty variant: the prompt is also shown when the space is exactly enough
NeedsConfirmation_OrEqual(expectedSpace, available) == expectedSpace >= available

\* if (expectedSpace > spaceInfo.available)
NeedsConfirmation(expectedSpace, available) == expectedSpace > available

\* free space, creation of the BackupTask, expected disk usage
BkSpace ==
    /\ Alive /\ pc = "bk_space"
    /\ \E o \in {"ok", "space-error", "SessionException", "BackupException"} :
        IF o # "ok"
        THEN /\ Exit(EXIT_FAILURE, o)
             /\ UNCHANGED <<space, reader>>
        ELSE \E e \in 0..MaxBytes, a \in 0..MaxBytes :
             /\ space' = [expected |-> e, available |-> a]
             /\ IF NeedsConfirmation(e, a)
                THEN Prompt("yesno", "Do you wish to proceed?", "bk_confirm", "main")
                ELSE pc' = "bk_run" /\ UNCHANGED reader
             /\ UNCHANGED outVars
    /\ UNCHANGED <<cfgVars, sigVars, netVars, readResult, runVars, loginVars,
                   outPathCameFromArg, promptEntry, backupPath, chosen, ran, statsRead,
                   histVars, cancelRaised>>

BkConfirm ==
    /\ Alive /\ pc = "bk_confirm"
    /\ IF readResult # "yes"
       THEN Exit(EXIT_SUCCESS, "declined")
       ELSE pc' = "bk_run" /\ UNCHANGED outVars
    /\ UNCHANGED <<cfgVars, sigVars, netVars, rdrVars, runVars, loginVars,
                   opVars, histVars, cancelRaised>>

BkRun ==
    /\ Alive /\ pc = "bk_run"
    /\ runTask("backup", "bk_ret")
    /\ ran' = TRUE
    /\ UNCHANGED <<cfgVars, sigVars, netVars, rdrVars, loginVars,
                   outPathCameFromArg, promptEntry, backupPath, space, chosen, statsRead,
                   outVars, histVars, cancelRaised>>

\* faulty variant: the catch block falls through to the completion banner
OperationRet_BannerOnError(recoverable, failed, finished) ==
    /\ taskResult' = "none"
    /\ IF taskResult \in Exceptions \ {recoverable}
       THEN Throw(taskResult)
       ELSE Exit(EXIT_SUCCESS, finished) /\ UNCHANGED cancelRaised
    /\ UNCHANGED <<cfgVars, sigVars, netVars, rdrVars, task, cancelled, loginVars,
                   outPathCameFromArg, promptEntry, backupPath, space, chosen, ran, histVars>>

\* the try / catch around runTaskWithProgress of performBackup and performRestore
OperationRet(recoverable, failed, finished) ==
    /\ taskResult' = "none"
    /\ IF taskResult = recoverable
       THEN Exit(EXIT_FAILURE, failed) /\ UNCHANGED cancelRaised
       ELSE IF taskResult \in Exceptions
       THEN Throw(taskResult)
       ELSE Exit(EXIT_SUCCESS, finished) /\ UNCHANGED cancelRaised
    /\ UNCHANGED <<cfgVars, sigVars, netVars, rdrVars, task, cancelled, loginVars,
                   outPathCameFromArg, promptEntry, backupPath, space, chosen, ran, histVars>>

BkRet ==
    /\ Alive /\ pc = "bk_ret"
    /\ OperationRet("BackupException", "Failed to export", "Export Finished")
    /\ UNCHANGED statsRead

(***************************************************************************)
(* performRestore and getRestorePath.                                      *)
(***************************************************************************)
RsPath ==
    /\ Alive /\ pc = "rs_path"
    /\ IF CLISource("dir") # "fallback"
       THEN /\ \E argPath \in ArgPaths :
                /\ backupPath' = argPath
                /\ chosen' = [source |-> CLISource("dir"), value |-> argPath]
            /\ outPathCameFromArg' = TRUE
            /\ pc' = "rs_create"
            /\ UNCHANGED reader
       ELSE /\ Prompt("path", "Backup Path", "rs_entered", "restore")
            /\ outPathCameFromArg' = FALSE
            /\ backupPath' = ""
            /\ chosen' = NoChoice
    /\ UNCHANGED <<cfgVars, sigVars, netVars, readResult, runVars, loginVars,
                   promptEntry, space, ran, statsRead, outVars, histVars, cancelRaised>>

\* the checks of the while (true) loop of getRestorePath on an entered path
RsEntered ==
    /\ Alive /\ pc = "rs_entered"
    /\ IF PathExists(Resolve(readResult)) /\ IsDirectory(Resolve(readResult))
       THEN /\ backupPath' = Resolve(readResult)
            /\ chosen' = [source |-> "entered", value |-> readResult]
            /\ pc' = "rs_create"
            /\ UNCHANGED reader
       ELSE /\ Prompt("path", "Backup Path", "rs_entered", "restore")
            /\ UNCHANGED <<backupPath, chosen>>
    /\ UNCHANGED <<cfgVars, sigVars, netVars, readResult, runVars, loginVars,
                   outPathCameFromArg, promptEntry, space, ran, statsRead, outVars, histVars,
                   cancelRaised>>

\* creation of the RestoreTask, then runTaskWithProgress
RsCreate ==
    /\ Alive /\ pc = "rs_create"
    /\ \E o \in {"ok", "SessionException"} :
        IF o = "ok"
        THEN runTask("restore", "rs_ret") /\ ran' = TRUE /\ UNCHANGED outVars
        ELSE Exit(EXIT_FAILURE, "Failed to create export task") /\ UNCHANGED <<runVars, ran>>
    /\ UNCHANGED <<cfgVars, sigVars, netVars, rdrVars, loginVars,
                   outPathCameFromArg, promptEntry, backupPath, space, chosen, statsRead,
                   histVars, cancelRaised>>

\* faulty variant: the counters are printed whatever the runner reported
StatsPrinted_Always(result) == TRUE

\* printRestoreStats is reached when runTaskWithProgress returned without raising
StatsPrinted(result) == result \notin Exceptions

RsRet ==
    /\ Alive /\ pc = "rs_ret"
    /\ OperationRet("RestoreException", "Failed to restore", "Restore Finished")
    /\ statsRead' = StatsPrinted(taskResult)

(***************************************************************************)
(* The specification.                                                      *)
(***************************************************************************)
\* the state when main is entered, for a number of Ctrl+C deliveries and a set of
\* command lines
InitFor(deliveries, configs) ==
    /\ win32 \in BOOLEAN
    /\ cli \in configs
    /\ gShouldQuit = FALSE
    /\ gConnectionActive = TRUE
    /\ lastCallback = "none"
    /\ stdinState = "open"
    /\ hpc = [h \in 1..deliveries |-> "idle"]
    /\ pc = "versionCheck"
    /\ reader = NoReader
    /\ readResult = "none"
    /\ task = NoTask
    /\ cancelled = FALSE
    /\ taskResult = "none"
    /\ loginState = "LoggedOut"
    /\ numLoginAttempts = 0
    /\ username = ""
    /\ password = ""
    /\ loginUsername = ""
    /\ loginPassword = ""
    /\ lastLogin = <<>>
    /\ replayed = <<>>
    /\ outPathCameFromArg = FALSE
    /\ promptEntry = FALSE
    /\ backupPath = ""
    /\ space = [expected |-> 0, available |-> 0]
    /\ chosen = NoChoice
    /\ ran = FALSE
    /\ statsRead = FALSE
    /\ exitCode = -1
    /\ diag = "none"
    /\ stepAttempts = 0
    /\ visited = {"LoggedOut"}
    /\ lastStep = NoStep
    /\ failStreak = 0
    /\ cancelRaised = "none"

Init == InitFor(MaxSignals, CliConfigs)

Next ==
    \/ \E h \in 1..MaxSignals : HandlerCheck(h)
    \/ \E h \in 1..MaxSignals : HandlerStore(h)
    \/ \E h \in 1..MaxSignals : HandlerClose(h)
    \/ ReadLinePrint
    \/ ReadLineGet
    \/ RunnerCancel
    \/ WorkerProgress
    \/ WorkerFinish
    \/ RunnerReturn
    \/ VersionCheck
    \/ VersionCheckRet
    \/ LoginLoop
    \/ LoggedOutUser
    \/ LoggedOutCheck
    \/ LoggedOutPassword
    \/ LoggedOutLogin
    \/ LoggedOutRet
    \/ TOTPGet
    \/ TOTPCheck
    \/ TOTPLogin
    \/ TOTPRet
    \/ HVUrl
    \/ HVCheck
    \/ HVMark
    \/ HVRet
    \/ MBOXGet
    \/ MBOXCheck
    \/ MBOXLogin
    \/ Operation
    \/ OperationCheck
    \/ BkPath
    \/ BkYesNo
    \/ BkLoop
    \/ BkEntered
    \/ BkCreate
    \/ BkSpace
    \/ BkConfirm
    \/ BkRun
    \/ BkRet
    \/ RsPath
    \/ RsEntered
    \/ RsCreate
    \/ RsRet

Spec == Init /\ [][Next]_vars

(***************************************************************************)
(* The program with the session's network callbacks, which the session     *)
(* invokes on its own thread at any time while it exists.                  *)
(***************************************************************************)
NextNet ==
    \/ Next
    \/ onNetworkLost
    \/ onNetworkRestored

\* the command lines without flags: every value comes from the environment or a prompt
EnvConfigs == {c \in CliConfigs : c.flag = {}}

InitNet == InitFor(MaxSignals, EnvConfigs)

SpecNet == InitNet /\ [][NextNet]_vars

(***************************************************************************)
(* The program with several Ctrl+C deliveries, each running the handler on *)
(* a thread of its own.                                                    *)
(***************************************************************************)
InitSig == InitFor(MaxDeliveries, EnvConfigs)

NextSig ==
    \/ Next
    \/ \E h \in 1..MaxDeliveries : HandlerCheck(h)
    \/ \E h \in 1..MaxDeliveries : HandlerStore(h)
    \/ \E h \in 1..MaxDeliveries : HandlerClose(h)

SpecSig == InitSig /\ [][NextSig]_vars

(***************************************************************************)
(* Properties of the login orchestrator.                                   *)
(***************************************************************************)
\* the main thread is between the prompt of a login step and its result
InStep ==
    \/ pc \in {"LoggedOut_user", "LoggedOut_chk", "LoggedOut_pass", "LoggedOut_login",
               "LoggedOut_ret", "TOTP_get", "TOTP_chk", "TOTP_login", "TOTP_ret",
               "HV_url", "HV_chk", "HV_mark", "HV_ret", "MBOX_get", "MBOX_chk", "MBOX_login"}
    \/ pc = "reading" /\ reader.ret \in {"LoggedOut_chk", "LoggedOut_login", "TOTP_chk",
                                         "HV_chk", "MBOX_chk"}
    \/ pc = "runTask" /\ task.ret \in {"LoggedOut_ret", "TOTP_ret", "HV_ret"}

InLogin == pc = "login_loop" \/ InStep

\* the main thread is past performLogin, in the choice of the operation or in
\* performBackup / performRestore
AfterLogin ==
    \/ pc \in {"operation", "operation_chk", "bk_path", "bk_yesno", "bk_loop", "bk_entered",
               "bk_create", "bk_space", "bk_confirm", "bk_run", "bk_ret", "rs_path",
               "rs_entered", "rs_create", "rs_ret"}
    \/ pc = "reading" /\ reader.ret \in {"operation_chk", "bk_yesno", "bk_entered",
                                         "bk_confirm", "rs_entered"}
    \/ pc = "runTask" /\ task.ret \in {"bk_ret", "rs_ret"}

\* C1: once the cancellation signal is set before the login state reaches
\* LoggedIn, the process ends with exit code 0 and no prompt is issued any more.
C1_CancelBeforeLoggedIn ==
    /\ [](pc = "done" /\ gShouldQuit /\ loginState # "LoggedIn" => exitCode = EXIT_SUCCESS)
    /\ [][gShouldQuit /\ loginState # "LoggedIn" => ~PromptIssued]_vars

\* C2: three failed login steps in a row end the process with the diagnostic
\* "Max attempts reached" and a non-zero exit code, without a fourth attempt and,
\* when they are the first three steps, without leaving LoggedOut; the
\* diagnostic is not given after fewer than three failures in a row.
C2_ThreeFailuresFatal ==
    /\ failStreak <= kMaxNumLoginAttempts
    /\ failStreak = kMaxNumLoginAttempts => pc \in {"login_loop", "done"}
    /\ (failStreak = kMaxNumLoginAttempts /\ pc = "done" /\ ~gShouldQuit)
          => (exitCode = EXIT_FAILURE /\ diag = "Max attempts reached")
    /\ (failStreak = kMaxNumLoginAttempts /\ stepAttempts = kMaxNumLoginAttempts)
          => (visited = {"LoggedOut"} /\ loginState = "LoggedOut")
    /\ diag = "Max attempts reached"
          => (failStreak = kMaxNumLoginAttempts /\ exitCode = EXIT_FAILURE)

C2_Witness ==
    /\ pc = "done" /\ diag = "Max attempts reached" /\ exitCode = EXIT_FAILURE
    /\ stepAttempts = 3 /\ failStreak = 3 /\ visited = {"LoggedOut"} /\ ~gShouldQuit

\* C3: right after a login step that raised no error and changed the login
\* state, the retry counter is 0, whatever it was before the step.
C3_ResetOnTransition ==
    (pc = "login_loop" /\ lastStep.state # "none" /\ ~lastStep.err /\ loginState # lastStep.state)
        => numLoginAttempts = 0

C3_Witness ==
    /\ pc = "login_loop" /\ lastStep.state = "LoggedOut" /\ ~lastStep.err
    /\ lastStep.attempts = 2 /\ loginState = "AwaitingTOTP" /\ numLoginAttempts = 0

C5_FiveStates ==
    /\ loginState \in LoginStates
    /\ visited \subseteq LoginStates
    /\ AfterLogin => loginState = "LoggedIn"
    /\ (pc = "done" /\ loginState # "LoggedIn")
          => (exitCode = EXIT_FAILURE \/ (exitCode = EXIT_SUCCESS /\ diag \in {"quit", "cancelled"}))
    /\ LoginDispatch(loginState) = "unexpected" => loginState = "LoggedIn"
    /\ \A s \in {"Unknown", "0x5"} : LoginDispatch(s) = "unexpected"

C5_Witness ==
    pc = "done" /\ loginState = "AwaitingHV" /\ exitCode = EXIT_FAILURE /\ diag = "kill-switch"

\* C6: after a login step that raised a SessionException the retry counter is
\* one more than before and the login state is the state the step started in.
C6_FailureKeepsState ==
    (pc = "login_loop" /\ lastStep.err)
        => (numLoginAttempts = lastStep.attempts + 1 /\ loginState = lastStep.state)

(***************************************************************************)
(* Properties of the Task Runner.                                          *)
(***************************************************************************)
\* C7: the main thread is inside the runner for as long as run() executes, and
\* a result of the runner, the cancellation among them, exists only once the
\* worker is gone.
C7_ReturnAfterRun ==
    /\ task.worker = "running" => pc = "runTask"
    /\ taskResult # "none" => task.worker \notin {"running", "finished"}
    /\ pc # "runTask" => task = NoTask

C7_Witness ==
    /\ taskResult = "CancelledException" /\ task = NoTask /\ pc \in {"bk_ret", "rs_ret"}

\* C8: when run() ended with a recoverable error and cancel() was not called,
\* the runner raises that error to its caller.
C8_ErrorSurfaces ==
    [][(pc = "runTask" /\ pc' # "runTask" /\ task.cancelCalls = 0
        /\ task.outcome \in {"SessionException", "BackupException", "RestoreException"})
       => taskResult' = task.outcome]_vars

C8_Witness ==
    /\ pc = "bk_ret" /\ taskResult = "BackupException" /\ ~gShouldQuit

\* C9: cancel() is called at most once on a task and only when the signal is
\* set, and the runner stays in its poll loop after the call until the worker
\* has finished.
C9_CancelOnce ==
    /\ task.cancelCalls <= 1
    /\ task.cancelCalls > 0 => (gShouldQuit /\ cancelled)
    /\ cancelled => (pc = "runTask" /\ task.cancelCalls = 1)

C9_Witness ==
    /\ pc = "runTask" /\ cancelled /\ task.cancelCalls = 1 /\ task.worker = "running"
    /\ task.kind = "backup"

(***************************************************************************)
(* Properties of the entry point.                                          *)
(***************************************************************************)
\* C10: a CancelledException raised at any prompt or task ends the process
\* with exit code 0 at once; nothing catches it and goes on.
C10_CancelPropagates ==
    cancelRaised # "none" => (pc = "done" /\ exitCode = EXIT_SUCCESS)

(***************************************************************************)
(* Properties of the prompt readers.                                       *)
(***************************************************************************)
\* the step in which readLine finds its stream at end of file
EofObserved ==
    /\ pc = "reading" /\ reader.phase = "getline" /\ reader.kind # "enter"
    /\ pc' # "reading" /\ stdinState' # "open"

\* C11: a prompt read that finds its input stream closed resolves to the
\* cancellation outcome and the process exits with code 0; it never resolves
\* to a read error, whether or not the cancellation flag was set before.
C11_ClosedReadCancels ==
    [][EofObserved => (pc' = "done" /\ exitCode' = EXIT_SUCCESS /\ diag' = "cancelled")]_vars

\* C12: no session error raised inside the login orchestrator reaches the
\* handler of main() for unexpected errors.
C12_SessionErrorsCaught ==
    (pc = "done" /\ loginState # "LoggedIn") => diag # "unexpected-error"

(***************************************************************************)
(* Properties of the command line values.                                  *)
(***************************************************************************)
\* the places of performLogin that ask for a login input
LoginInputs ==
    { [at |-> "LoggedOut_user", key |-> "user", label |-> "Username"],
      [at |-> "LoggedOut_pass", key |-> "password", label |-> "Password"],
      [at |-> "TOTP_get", key |-> "totp", label |-> "Enter the code from your authenticator app"],
      [at |-> "MBOX_get", key |-> "mbox-password", label |-> "Mailbox Password"] }

\* C13: each login input is the non-empty flag value if there is one, else the
\* non-empty environment variable if there is one, and the prompt for it is
\* issued exactly when neither is given.
C13_FlagEnvPrompt ==
    [][\A in \in LoginInputs :
         (pc = in.at /\ pc' # pc) =>
            IF in.key \in cli.flag THEN readResult' = "flag" /\ pc' # "reading"
            ELSE IF in.key \in cli.env THEN readResult' = "env" /\ pc' # "reading"
            ELSE pc' = "reading" /\ reader'.label = in.label /\ reader'.phase = "print"]_vars

C13_Witness ==
    /\ pc = "runTask" /\ task.kind = "login" /\ lastLogin = <<"flag", "v">>
    /\ "user" \in cli.flag \cap cli.env /\ "password" \in cli.blank

\* C14: the login replayed after markHVSolved() reported LoggedOut passes the
\* username and the password of the last login() of the LoggedOut step, both
\* non-empty, and no prompt is issued between markHVSolved() and the result
\* of the replay.
C14_ReplayUsesLastLogin ==
    /\ replayed # <<>> => (replayed = lastLogin /\ replayed[1] # "" /\ replayed[2] # "")
    /\ replayed # <<>> => (pc \in {"runTask", "HV_ret", "done"} /\ reader = NoReader)
    /\ task.kind = "loginRetry" => replayed # <<>>

C14_Witness ==
    /\ pc = "runTask" /\ task.kind = "loginRetry" /\ task.worker = "running"
    /\ replayed = <<"w", "v">> /\ stepAttempts = 3 /\ loginState = "LoggedOut"

(***************************************************************************)
(* Properties of the backup orchestrator.                                  *)
(***************************************************************************)
\* the main thread is at the free-space confirmation prompt
AtSpaceConfirmation == pc = "reading" /\ reader.ret = "bk_confirm"

\* C15: performBackup asks for the free-space confirmation exactly when the
\* expected disk usage is greater than the available space; when the user
\* declines, the process exits with code 0 and the backup task is not run.
C15_SpaceConfirmation ==
    /\ [][(pc = "bk_space" /\ pc' \notin {pc, "done"})
          => (AtSpaceConfirmation' <=> space'.expected > space'.available)]_vars
    /\ [][(pc = "bk_confirm" /\ pc' # pc /\ readResult # "yes")
          => (pc' = "done" /\ exitCode' = EXIT_SUCCESS /\ diag' = "declined")]_vars
    /\ [](AtSpaceConfirmation => (space.expected > space.available /\ ~ran))
    /\ [](diag = "declined" => (exitCode = EXIT_SUCCESS /\ ~ran /\ task = NoTask))

C15_Witness ==
    /\ pc = "done" /\ diag = "declined" /\ exitCode = EXIT_SUCCESS
    /\ space.expected > space.available /\ ~ran /\ ~gShouldQuit

\* C16: when create_directories fails, a path given by the flag ends the
\* operation with a non-zero exit code, and for any other path the user is
\* asked for a path before the next attempt to create the directory.
C16_CreateFailureReprompts ==
    [][(pc = "bk_create" /\ pc' \notin {pc, "bk_space"})
       => IF chosen.source = "flag"
          THEN pc' = "done" /\ exitCode' = EXIT_FAILURE
          ELSE pc' = "bk_loop" /\ promptEntry']_vars

\* the default-path confirmation of getBackupPath is on the screen
AtDefaultConfirmation == pc = "reading" /\ reader.ret = "bk_yesno"

\* C17: getBackupPath returns the value of the dir flag when it is not empty,
\* and then asks no confirmation of the default; else the platform output
\* directory joined with the account email when the user confirms the
\* default; else the path the user enters; a relative path is resolved
\* against the platform output directory.
C17_ResolvedBackupPath ==
    /\ pc = "bk_space"
          => backupPath = (IF chosen.source = "default" THEN "outputPath/email"
                           ELSE Resolve(chosen.value))
    /\ pc = "bk_space" => chosen.source = (IF "dir" \in cli.flag THEN "flag"
                                           ELSE IF promptEntry THEN "entered" ELSE "default")
    /\ AtDefaultConfirmation => "dir" \notin cli.flag

(***************************************************************************)
(* Properties of the restore orchestrator.                                 *)
(***************************************************************************)
\* the 'Backup Path' prompt of getRestorePath is about to be written
AtRestorePrompt == pc = "reading" /\ reader.ret = "rs_entered" /\ reader.phase = "print"

\* C18: the restore directory is the dir flag if not empty, else ET_DIR, else
\* the prompt; a flag or environment path that does not exist or is not a
\* directory ends the process with a non-zero exit code at once, without a
\* prompt and without running the restore task; an entered path that fails
\* a check is asked for again.
C18_RestorePathValidated ==
    /\ [][(pc = "rs_path" /\ pc' # pc)
          => IF "dir" \in cli.flag THEN chosen'.source = "flag" /\ ~AtRestorePrompt'
             ELSE IF "dir" \in cli.env THEN chosen'.source = "env" /\ ~AtRestorePrompt'
             ELSE AtRestorePrompt']_vars
    /\ [][(pc = "rs_path" /\ pc' # pc /\ chosen'.value \in {"missing", "file"})
          => (pc' = "done" /\ exitCode' = EXIT_FAILURE)]_vars
    /\ [][(pc = "rs_entered" /\ pc' # pc /\ readResult \in {"missing", "file"})
          => AtRestorePrompt']_vars
    /\ [](ran /\ task.kind = "restore" /\ chosen.source \in {"flag", "env"}
             => chosen.value \notin {"missing", "file"})

\* C19: a value supplied through its environment variable has the effect of
\* the same value supplied through the flag: for the login inputs, the
\* operation and the directory, in backup and in restore, the prompt for a
\* value is not shown when the flag or the environment variable supplies it,
\* and the directory resolved is the one supplied.
C19_EnvLikeFlag ==
    /\ \A in \in LoginInputs :
          (pc = "reading" /\ reader.label = in.label) => in.key \notin cli.flag \cup cli.env
    /\ (pc = "reading" /\ reader.ret = "operation_chk") => "operation" \notin cli.flag \cup cli.env
    /\ (pc = "reading" /\ reader.ret = "rs_entered") => "dir" \notin cli.flag \cup cli.env
    /\ AtDefaultConfirmation => "dir" \notin cli.flag \cup cli.env
    /\ (pc \in {"bk_space", "rs_create"} /\ "dir" \in cli.flag \cup cli.env /\ ~gShouldQuit)
          => chosen.source \in {"flag", "env"}

\* C20: the restore counters are read only after the Task Runner returned from
\* the restore task without raising: not before the task starts, not while
\* it runs, and not when it ended with an error or a cancellation.
C20_StatsAfterCompletion ==
    /\ [][(~statsRead /\ statsRead')
          => (pc = "rs_ret" /\ ran /\ task = NoTask /\ taskResult \notin Exceptions)]_vars
    /\ [](statsRead => (pc = "done" /\ exitCode = EXIT_SUCCESS /\ diag = "Restore Finished"))
    /\ [](pc = "done" /\ diag \in {"Failed to restore", "cancelled", "Failed to create export task"}
             => ~statsRead)

C20_Witness ==
    /\ statsRead /\ pc = "done" /\ diag = "Restore Finished" /\ ran /\ chosen.source = "entered"

(***************************************************************************)
(* Properties of the outcome of an operation and of the process.           *)
(***************************************************************************)
\* C21: once the preconditions of the backup have passed, the backup task is
\* run once under the Task Runner; when the runner raises BackupException the
\* process exits non-zero without the banner "Export Finished", and when it
\* returns without error the banner is printed and the exit code is 0.
C21_BackupOutcome ==
    /\ [][(pc = "bk_run" /\ pc' # pc)
          => (~ran /\ ran' /\ pc' = "runTask" /\ task'.kind = "backup"
              /\ task'.worker = "running")]_vars
    /\ [][(task'.kind = "backup" /\ task.kind # "backup") => pc = "bk_run"]_vars
    /\ [][(pc = "bk_ret" /\ pc' # pc /\ taskResult = "BackupException")
          => (pc' = "done" /\ exitCode' = EXIT_FAILURE /\ diag' = "Failed to export")]_vars
    /\ [][(pc = "bk_ret" /\ pc' # pc /\ taskResult = "ok")
          => (pc' = "done" /\ exitCode' = EXIT_SUCCESS /\ diag' = "Export Finished")]_vars
    /\ [](diag = "Export Finished" => (pc = "done" /\ ran /\ exitCode = EXIT_SUCCESS))

C21_Witness ==
    /\ pc = "done" /\ diag = "Failed to export" /\ exitCode = EXIT_FAILURE /\ ran
    /\ chosen.source = "default" /\ space.expected <= space.available

\* the ways the process ends that are a success, a declined confirmation or a
\* cancellation by the user
CleanEnds == {"Export Finished", "Restore Finished", "declined", "quit", "cancelled"}

\* C22: the exit code is 0 exactly when the run ended in success, in a declined
\* confirmation or in a cancellation by the user, and non-zero after a fatal
\* error, the retry bound or a kill switch; in particular a run in which a
\* prompt or a task was cancelled ends with exit code 0.
C22_ExitCodes ==
    /\ pc = "done" => (exitCode = EXIT_SUCCESS <=> diag \in CleanEnds)
    /\ pc = "done" => exitCode \in {EXIT_SUCCESS, EXIT_FAILURE}
    /\ (pc = "done" /\ cancelRaised # "none") => exitCode = EXIT_SUCCESS

(***************************************************************************)
(* Properties of the shared signals.                                       *)
(***************************************************************************)
\* C23: a network callback changes only the reachability flag: the cancellation
\* signal, the task in flight (so also the number of cancel() calls made on it),
\* the login state and the retry counter are left as they were; and
\* networkLost() is true exactly when the last callback was onNetworkLost.
C23_NetworkCallbackFrame ==
    /\ [][netVars' # netVars
          => UNCHANGED <<gShouldQuit, stdinState, runVars, loginState,
                         numLoginAttempts, pc>>]_vars
    /\ [](networkLost <=> lastCallback = "lost")
    /\ [][task'.cancelCalls > task.cancelCalls => (gShouldQuit /\ netVars' = netVars)]_vars

C23_Witness ==
    /\ lastCallback = "lost" /\ networkLost /\ ~shouldQuit
    /\ pc = "runTask" /\ task.kind = "backup" /\ task.worker = "running"
    /\ task.cancelCalls = 0 /\ ~cancelled /\ loginState = "LoggedIn"

(***************************************************************************)
(* Properties of the scheduling of tasks.                                  *)
(***************************************************************************)
\* C24: at most one task is in flight: a runner invocation starts only when no
\* task exists, with one running worker, and the main thread waits in it; the
\* main thread leaves the invocation only when the worker has finished, and the
\* task is then gone; a task is never replaced by another; a login step, the
\* replay of the login after human verification included, begins with no task
\* in flight.
C24_OneTaskInFlight ==
    /\ [][(task = NoTask /\ task' # NoTask)
          => (pc # "runTask" /\ pc' = "runTask" /\ task'.worker = "running")]_vars
    /\ [][(pc = "runTask" /\ pc' # pc)
          => (task.worker = "finished" /\ task' = NoTask /\ pc' = task.ret)]_vars
    /\ [][(task # NoTask /\ task' # NoTask) => task'.kind = task.kind]_vars
    /\ [][stepAttempts' = stepAttempts + 1 => task = NoTask]_vars
    /\ [](task # NoTask => pc = "runTask")

C24_Witness ==
    /\ pc = "runTask" /\ task.kind = "loginRetry" /\ task.worker = "running"
    /\ stepAttempts >= 2 /\ loginState = "LoggedOut" /\ "AwaitingHV" \in visited

\* C26: the cancellation signal is false at the start, is written only by the
\* store of the interrupt handler, only from false to true, and stays true in
\* every later state; the steps of the main thread and of the runner write
\* neither it nor the reachability flag, which only a network callback writes.
C26_SignalLifecycle ==
    /\ ~gShouldQuit
    /\ [][gShouldQuit => gShouldQuit']_vars
    /\ [][gShouldQuit' # gShouldQuit
          => (/\ \E h \in DOMAIN hpc : hpc[h] = "store" /\ hpc'[h] = "close"
              /\ UNCHANGED <<pc, rdrVars, runVars, netVars>>)]_vars
    /\ [][gConnectionActive' # gConnectionActive
          => (lastCallback' # lastCallback /\ UNCHANGED <<pc, rdrVars, runVars, sigVars>>)]_vars
    /\ [][(pc' # pc \/ runVars' # runVars \/ reader' # reader)
          => UNCHANGED <<gShouldQuit, gConnectionActive>>]_vars

C26_Witness ==
    /\ gShouldQuit /\ stdinState = "closed" /\ \A h \in DOMAIN hpc : hpc[h] = "end"
    /\ pc = "done" /\ cancelRaised = "bk_ret" /\ lastCallback = "restored"

\* C27: the operation is chosen and a backup or restore task is created and run
\* only with the login state LoggedIn: past performLogin the state is LoggedIn,
\* and a process that ended while the state was not LoggedIn has prompted for
\* no operation, chosen no path and created and run no backup or restore task.
C27_OperationOnlyLoggedIn ==
    /\ AfterLogin => loginState = "LoggedIn"
    /\ task.kind \in {"backup", "restore"} => loginState = "LoggedIn"
    /\ (pc = "reading" /\ reader.kind = "operation") => loginState = "LoggedIn"
    /\ (ran \/ statsRead \/ chosen # NoChoice) => loginState = "LoggedIn"
    /\ (pc = "done" /\ loginState # "LoggedIn")
          => (~ran /\ chosen = NoChoice /\ task = NoTask)

C27_Witness ==
    /\ pc = "done" /\ diag = "Max attempts reached" /\ loginState = "AwaitingTOTP"
    /\ ~ran /\ chosen = NoChoice /\ exitCode = EXIT_FAILURE

\* C28: the restore task is created only with a source path that came from the
\* flag or the environment or was entered and found to be an existing
\* directory; when the resolution of the path ended with an error, no restore
\* task is created and no restore is run.
C28_RestoreSourceResolved ==
    /\ pc = "rs_create" => chosen # NoChoice
    /\ task.kind = "restore"
          => \/ chosen.source \in {"flag", "env"}
             \/ /\ chosen.source = "entered"
                /\ PathExists(backupPath) /\ IsDirectory(backupPath)
    /\ (pc = "done" /\ chosen = NoChoice) => ~ran

\* C29: a human verification round that raised no error and ended in
\* AwaitingHV, with or without the replayed login, counts as a failed attempt:
\* the retry counter is one more than before the round, and 0 after a round
\* that ended in any other state; with the counter at the bound and the state
\* still AwaitingHV the loop head ends the process with "Max attempts reached".
C29_HVRoundCounts ==
    /\ [](pc = "login_loop" /\ lastStep.state = "AwaitingHV" /\ ~lastStep.err
             => numLoginAttempts = IF loginState = "AwaitingHV"
                                   THEN lastStep.attempts + 1 ELSE 0)
    /\ [][(pc = "HV_ret" /\ pc' = "login_loop" /\ taskResult = "AwaitingHV")
          => numLoginAttempts' = numLoginAttempts + 1]_vars
    /\ [][(pc = "login_loop" /\ pc' # pc /\ loginState = "AwaitingHV" /\ ~gShouldQuit
           /\ numLoginAttempts = kMaxNumLoginAttempts)
          => (pc' = "done" /\ diag' = "Max attempts reached"
              /\ exitCode' = EXIT_FAILURE)]_vars

C29_Witness ==
    /\ pc = "login_loop" /\ lastStep.state = "AwaitingHV" /\ ~lastStep.err
    /\ lastStep.attempts = 2 /\ loginState = "AwaitingHV"
    /\ numLoginAttempts = kMaxNumLoginAttempts /\ failStreak = 3 /\ stepAttempts = 4

\* C30: whatever the number and the interleaving of the Ctrl+C deliveries, at
\* most one of them passes the check of the signal and so prints the notice,
\* stdin is closed at most once, and a delivery that finds the signal set does
\* nothing.
C30_HandlerActsOnce ==
    /\ [][\A h \in DOMAIN hpc :
            (hpc[h] = "idle" /\ hpc'[h] = "store")
               => \A g \in DOMAIN hpc \ {h} : hpc[g] # "store"]_vars
    /\ [][\A h \in DOMAIN hpc :
            (hpc[h] = "close" /\ hpc'[h] = "end") => stdinState # "closed"]_vars
    /\ [][\A h \in DOMAIN hpc :
            (gShouldQuit /\ hpc[h] = "idle" /\ hpc'[h] # "idle")
               => (hpc'[h] = "end" /\ UNCHANGED <<gShouldQuit, stdinState>>)]_vars

\* the positions of the main thread at which performLogin makes a login call
\* to the session: login, loginTOTP, markHVSolved, loginMailboxPassword
LoginCalls == {"LoggedOut_login", "TOTP_login", "HV_mark", "MBOX_login"}

\* C25: every login call of performLogin to the session is made through a
\* runner invocation: the step that makes the call starts a task with a running
\* worker and waits in the runner, where a cancellation is observed (the task
\* that returns to "HV_ret" carries the replayed login, not markHVSolved).
C25_LoginCallsThroughRunner ==
    [][(pc \in LoginCalls /\ pc' # pc)
       => (pc' = "runTask" /\ task'.worker = "running" /\ task'.ret # "HV_ret")]_vars

====
